---- MODULE Spec2Model ----
(***************************************************************************)
(* Model of xrpick (src/src/main.rs): the interactive arrow-key menu       *)
(* select_option with its helpers draw_menu, clear_area and cleanup, and   *)
(* the workflow loop of main that calls it.                                *)
(*                                                                         *)
(* The terminal is a record: `screen` maps a row to the cells shown on     *)
(* that row, `cursor` is <<column, row>>, `raw` is the input mode and      *)
(* `visible` the cursor visibility.  Every crossterm call of the source is *)
(* one terminal operation; each is followed by .expect(..) in the source,  *)
(* so a failing operation panics, which ends the process on the spot.      *)
(* The rows of the menu are assumed to be addressable rows of the screen.  *)
(***************************************************************************)
EXTENDS Integers, Sequences, FiniteSets, TLC

\* ---------------------------------------------------------------- bounds
MaxAnchorRow == 1
MaxAnchorCol == 1
MaxOptions == 3
MaxOutputs == 3
MaxCommands == 2

\* ------------------------------------------------------------- constants
Displays == {"HDMI-1", "DP-1", "DP-2"}
OptionNames == {"a", "b"}
NoPrimary == ""
DisplayTitle == "Select display to attach (arrow keys to move, enter to select, q to quit):"
PositionTitle == "Select position (arrow keys to move, enter to select, q to quit):"
position_options == <<"left", "right", "above", "below">>
HarnessTitle == "title"
Marker == "> "
Blanks == "  "
None == [some |-> FALSE, value |-> ""]
Some(s) == [some |-> TRUE, value |-> s]

Min(a, b) == IF a < b THEN a ELSE b
Max(a, b) == IF a > b THEN a ELSE b

\* rows of the screen: enough for the tallest menu below the lowest anchor
LongestList == Max(MaxOptions, Len(position_options))
Rows == 0 .. (MaxAnchorRow + LongestList)
BlankLine == << >>
PriorLine == <<"old", "old", "old">>

\* ------------------------------------------------- terminal operations
\* Print(cells) at column col of a line: overwrites cell by cell, what was
\* right of the printed text stays.
Overwrite(line, col, cells) ==
    [i \in 1 .. Max(Len(line), col + Len(cells)) |->
        IF i > col /\ i <= col + Len(cells) THEN cells[i - col]
        ELSE IF i <= Len(line) THEN line[i]
        ELSE " "]

\* the effect of one successful terminal operation
Apply(t, op) ==
    CASE op.op = "enable_raw_mode" -> [t EXCEPT !.raw = TRUE]
      [] op.op = "disable_raw_mode" -> [t EXCEPT !.raw = FALSE]
      [] op.op = "Hide" -> [t EXCEPT !.visible = FALSE]
      [] op.op = "Show" -> [t EXCEPT !.visible = TRUE]
      [] op.op = "position" -> t
      [] op.op = "read" -> t
      [] op.op = "flush" -> t
      [] op.op = "MoveTo" -> [t EXCEPT !.cursor = <<0, op.row>>]
      [] op.op = "ClearLine" ->
            [t EXCEPT !.cursor = <<0, op.row>>, !.screen[op.row] = BlankLine]
      [] op.op = "Print" ->
            [t EXCEPT !.cursor = <<Len(op.cells), op.row>>,
                      !.screen[op.row] = Overwrite(t.screen[op.row], 0, op.cells)]

\* the terminal after the first n operations of ops
RECURSIVE RunOps(_, _, _)
RunOps(t, ops, n) ==
    IF n = 0 THEN t
    ELSE Apply(RunOps(t, ops, n - 1), ops[n])

\* clear_area whose loop stops one line early
clear_area_short(start_pos, num_lines) ==
    [i \in 1 .. (num_lines - 1) |-> [op |-> "ClearLine", row |-> start_pos[2] + (i - 1)]]
    \o << [op |-> "ClearLine", row |-> start_pos[2]],
          [op |-> "MoveTo", row |-> start_pos[2]], [op |-> "flush"] >>

\* operations of clear_area(stdout, start_pos, num_lines)
clear_area(start_pos, num_lines) ==
    [i \in 1 .. num_lines |-> [op |-> "ClearLine", row |-> start_pos[2] + (i - 1)]]
    \o << [op |-> "MoveTo", row |-> start_pos[2]], [op |-> "flush"] >>

\* draw_menu that counts its rows from the top of the screen
draw_menu_from_top(start_pos, title, options, selected_index) ==
    << [op |-> "Print", row |-> 0, cells |-> <<title>>] >>
    \o [i \in 1 .. Len(options) |->
          [op |-> "Print", row |-> i,
           cells |-> <<(IF i - 1 = selected_index THEN Marker ELSE Blanks), options[i]>>]]
    \o << [op |-> "flush"] >>

\* operations of draw_menu(stdout, start_pos, title, options, selected_index);
\* selected_index is 0-based as in the source
draw_menu(start_pos, title, options, selected_index) ==
    << [op |-> "Print", row |-> start_pos[2], cells |-> <<title>>] >>
    \o [i \in 1 .. Len(options) |->
          [op |-> "Print", row |-> start_pos[2] + i,
           cells |-> <<(IF i - 1 = selected_index THEN Marker ELSE Blanks), options[i]>>]]
    \o << [op |-> "flush"] >>

\* cleanup that shows the cursor and leaves raw mode on
cleanup_keeps_raw == << [op |-> "Show"], [op |-> "flush"] >>

\* operations of cleanup(stdout)
cleanup == << [op |-> "Show"], [op |-> "disable_raw_mode"] >>

\* ------------------------------------------------------------------ state
VARIABLES
    term,               \* the terminal: screen, cursor, raw, visible
    mainpc,             \* position of main; "harness" when select_option is called directly
    primary,            \* main: name of the primary display
    connected_outputs,  \* main: displays still to attach
    selected,           \* main: display chosen in this iteration, "" outside its scope
    issued,             \* main: number of xrandr arrangement commands run
    last_command,       \* main: the last arrangement command and its status
    initial_count,      \* history: displays to attach when the loop was entered
    iterations,         \* history: passes of the loop that called select_option
    any_failed,         \* history: an arrangement command reported failure
    selpc,              \* select_option: "idle", "waiting" (blocked in read), "returned", "panicked"
    title,              \* select_option: parameter
    options,            \* select_option: parameter
    selected_index,     \* select_option: local, 0-based
    start_pos,          \* select_option: local, <<column, row>>
    ret,                \* select_option: the returned Option<String>
    before,             \* history: raw and visible when select_option was called
    acquired,           \* history: enable_raw_mode succeeded in this call
    releases,           \* history: number of times cleanup was entered in this call
    downs,              \* history: Down events of this call, counted up to Len(options)
    ups,                \* history: an Up event was received in this call
    left_by,            \* history: the event that made this call return
    touched,            \* history: this call attempted a terminal operation
    ignored             \* history: this call handled an event that matches no arm

mainvars == <<mainpc, primary, connected_outputs, selected, issued, last_command,
              initial_count, iterations, any_failed>>
selvars == <<selpc, title, options, selected_index, start_pos, ret>>
histvars == <<before, acquired, releases, downs, ups, left_by, touched, ignored>>
vars == <<term, mainvars, selvars, histvars>>

NoCommand == [display |-> "", pos_arg |-> "", ok |-> FALSE]

\* let num_lines = 1 + options.len() as u16
num_lines == 1 + Len(options)

Screens == { [r \in Rows |-> BlankLine], [r \in Rows |-> PriorLine] }

\* the terminal as the shell leaves it: line-buffered, cursor shown
InitTerm ==
    { [screen |-> s, cursor |-> <<c, r>>, raw |-> FALSE, visible |-> TRUE] :
        s \in Screens, c \in 0 .. MaxAnchorCol, r \in 0 .. MaxAnchorRow }

InitSelect ==
    /\ selpc = "idle"
    /\ title = ""
    /\ options = << >>
    /\ selected_index = 0
    /\ start_pos = <<0, 0>>
    /\ ret = None
    /\ before = [raw |-> FALSE, visible |-> TRUE]
    /\ acquired = FALSE
    /\ releases = 0
    /\ downs = 0
    /\ ups = FALSE
    /\ left_by = "none"
    /\ touched = FALSE
    /\ ignored = FALSE

\* ------------------------------------------------------- select_option
\* the operations of select_option up to the first read (lines 118-131)
EntryOps(sp, ttl, opts) ==
    << [op |-> "enable_raw_mode"], [op |-> "Hide"], [op |-> "position"] >>
    \o clear_area(sp, 1 + Len(opts))
    \o draw_menu(sp, ttl, opts, 0)

\* number of operations that took effect when operation f fails (0: none fails)
Done(ops, f) == IF f = 0 THEN Len(ops) ELSE f - 1

\* a panic that reaches main as an error on which it leaves its loop
Panic_to_caller(t, acq, rel) ==
    /\ selpc' = "panicked"
    /\ mainpc' = "exit"
    /\ term' = t
    /\ title' = ""
    /\ options' = << >>
    /\ selected_index' = 0
    /\ start_pos' = <<0, 0>>
    /\ ret' = None
    /\ acquired' = acq
    /\ releases' = rel
    /\ downs' = 0
    /\ ups' = FALSE
    /\ left_by' = "none"
    /\ touched' = TRUE
    /\ ignored' = FALSE

\* a panic (a failed .expect) unwinds: the locals of select_option are
\* dropped and the process ends; the terminal stays as the operations done so
\* far left it
Panic(t, acq, rel) ==
    /\ selpc' = "panicked"
    /\ mainpc' = "panicked"
    /\ term' = t
    /\ title' = ""
    /\ options' = << >>
    /\ selected_index' = 0
    /\ start_pos' = <<0, 0>>
    /\ ret' = None
    /\ acquired' = acq
    /\ releases' = rel
    /\ downs' = 0
    /\ ups' = FALSE
    /\ left_by' = "none"
    /\ touched' = TRUE
    /\ ignored' = FALSE

\* no check for the empty list
IsEmpty_never(opts) == FALSE

\* if options.is_empty() { return None; }
IsEmpty(opts) == opts = << >>

\* select_option(ttl, opts) from its entry to the first read; f is the
\* operation that fails, 0 when none does; next is where main goes on
EnterSelect(ttl, opts, f, next) ==
    /\ before' = [raw |-> term.raw, visible |-> term.visible]
    /\ IF IsEmpty(opts)
       THEN /\ f = 0
            /\ selpc' = "returned"
            /\ mainpc' = next
            /\ ret' = None
            /\ title' = ttl
            /\ options' = opts
            /\ acquired' = FALSE
            /\ releases' = 0
            /\ downs' = 0
            /\ ups' = FALSE
            /\ left_by' = "none"
            /\ touched' = FALSE
            /\ ignored' = FALSE
            /\ UNCHANGED <<term, selected_index, start_pos>>
       ELSE LET ops == EntryOps(term.cursor, ttl, opts)
                t == RunOps(term, ops, Done(ops, f))
            IN  /\ f \in 0 .. Len(ops)
                /\ IF f # 0
                   THEN Panic(t, Done(ops, f) >= 1, 0)
                   ELSE /\ term' = t
                        /\ selpc' = "waiting"
                        /\ mainpc' = next
                        /\ title' = ttl
                        /\ options' = opts
                        /\ start_pos' = term.cursor
                        /\ selected_index' = 0
                        /\ acquired' = TRUE
                        /\ releases' = 0
                        /\ downs' = 0
                        /\ ups' = FALSE
                        /\ left_by' = "none"
                        /\ touched' = TRUE
                        /\ ignored' = FALSE
                        /\ UNCHANGED ret

\* the longest operation list of one call of select_option on opts
MaxOps(opts) == 3 + (Len(opts) + 3) + (Len(opts) + 2)

\* one pass of the loop for an event that does not end it: read, the new
\* index, clear_area, draw_menu
Redraw(index, ev, f) ==
    LET ops == << [op |-> "read"] >>
               \o clear_area(start_pos, num_lines)
               \o draw_menu(start_pos, title, options, index)
        t == RunOps(term, ops, Done(ops, f))
    IN  /\ selpc = "waiting"
        /\ f \in 0 .. Len(ops)
        /\ IF f # 0
           THEN Panic(t, acquired, releases)
           ELSE /\ term' = t
                /\ selected_index' = index
                /\ downs' = IF ev = "Down" THEN Min(downs + 1, Len(options)) ELSE downs
                /\ ups' = (ups \/ ev = "Up")
                /\ ignored' = (ignored \/ ev \in {"other key", "non-key"})
                /\ UNCHANGED <<selpc, mainpc, title, options, start_pos, ret, acquired, releases, left_by, touched>>
        /\ UNCHANGED <<primary, connected_outputs, selected, issued, last_command, before,
                       initial_count, iterations, any_failed>>

\* KeyCode::Up
UpIndex(i) == IF i > 0 THEN i - 1 ELSE i

\* Down without the bound check
DownIndex_unchecked(i, n) == i + 1

\* Down that wraps to the first option
DownIndex_wraps(i, n) == (i + 1) % n

\* KeyCode::Down
DownIndex(i, n) == IF i < n - 1 THEN i + 1 ELSE i

UpArm ==
    \E f \in 0 .. MaxOps(options) : Redraw(UpIndex(selected_index), "Up", f)

DownArm ==
    \E f \in 0 .. MaxOps(options) :
        Redraw(DownIndex(selected_index, Len(options)), "Down", f)

\* any other key, 'q' with a modifier included: the arm _ => {}
IgnoredArm ==
    \E f \in 0 .. MaxOps(options) : Redraw(selected_index, "other key", f)

\* an event that is not Event::Key: the if let does not match
NoMatch ==
    \E f \in 0 .. MaxOps(options) : Redraw(selected_index, "non-key", f)

\* Enter that releases the guard before it clears the menu
AcceptOps_release_first(sp, n) == << [op |-> "read"] >> \o cleanup \o clear_area(sp, n)

\* the operations of the arm KeyCode::Enter: read, break, lines 170-172
AcceptOps(sp, n) == << [op |-> "read"] >> \o clear_area(sp, n) \o cleanup

\* the operations of the arm KeyCode::Char('q'): read, lines 151-152
CancelQOps(sp, n) == << [op |-> "read"] >> \o clear_area(sp, n) \o cleanup

\* Esc that releases the guard and leaves the menu on the screen
CancelEscOps_no_clear(sp, n) ==
    << [op |-> "read"], [op |-> "flush"], [op |-> "flush"] >> \o cleanup

\* the operations of the arm KeyCode::Esc: read, lines 156-157
CancelEscOps(sp, n) == << [op |-> "read"] >> \o clear_area(sp, n) \o cleanup

\* return None of the arm KeyCode::Char('q')
CancelQResult == None

\* return None of the arm KeyCode::Esc
CancelEscResult == None

\* the first option, whatever is highlighted
AcceptResult_first(opts, index) == Some(opts[1])

\* Some(options[selected_index].to_string())
AcceptResult(opts, index) == Some(opts[index + 1])

\* cleanup was entered when operation f of ops fails (0: none fails); cleanup
\* is the last two operations
CleanupEntered(ops, f) == f = 0 \/ f >= Len(ops) - 1

\* a pass of the loop that leaves select_option: the operations ops of the
\* arm, then return r
Leave(r, ev, ops, f) ==
    LET t == RunOps(term, ops, Done(ops, f))
    IN  /\ selpc = "waiting"
        /\ f \in 0 .. Len(ops)
        /\ IF f # 0
           THEN Panic(t, acquired, IF CleanupEntered(ops, f) THEN releases + 1 ELSE releases)
           ELSE /\ term' = t
                /\ releases' = releases + 1
                /\ ret' = r
                /\ selpc' = "returned"
                /\ left_by' = ev
                /\ UNCHANGED <<mainpc, title, options, selected_index, start_pos,
                               acquired, downs, ups, touched, ignored>>
        /\ UNCHANGED <<primary, connected_outputs, selected, issued, last_command, before,
                       initial_count, iterations, any_failed>>

\* KeyCode::Enter => break, then lines 170-174
EnterArm ==
    \E f \in 0 .. MaxOps(options) :
        Leave(AcceptResult(options, selected_index), "Enter",
              AcceptOps(start_pos, num_lines), f)

\* KeyCode::Char('q') if modifiers.is_empty() => { .. }
QArm ==
    \E f \in 0 .. MaxOps(options) :
        Leave(CancelQResult, "q", CancelQOps(start_pos, num_lines), f)

\* KeyCode::Esc => { .. }
EscArm ==
    \E f \in 0 .. MaxOps(options) :
        Leave(CancelEscResult, "Esc", CancelEscOps(start_pos, num_lines), f)

\* the events read() delivers: key events with a code and modifiers, and
\* events that are not key events; the modifiers are varied for 'q', the
\* one code whose arm reads them
KeyCodes == {"Up", "Down", "Enter", "Char(q)", "Esc", "Char(x)"}
Modifiers == {"NONE", "CONTROL"}
Events ==
    { [kind |-> "Key", code |-> c, modifiers |-> "NONE"] : c \in KeyCodes }
    \cup { [kind |-> "Key", code |-> "Char(q)", modifiers |-> m] : m \in Modifiers }
    \cup { [kind |-> "Resize", code |-> "", modifiers |-> "NONE"] }

\* 'q' cancels whatever the modifiers
MatchArm_any_q(ev) ==
    IF ev.kind # "Key" THEN "none"
    ELSE CASE ev.code = "Up" -> "Up"
           [] ev.code = "Down" -> "Down"
           [] ev.code = "Enter" -> "Enter"
           [] ev.code = "Char(q)" -> "q"
           [] ev.code = "Esc" -> "Esc"
           [] OTHER -> "ignored"

\* Escape falls through to the arm _ => {}
MatchArm_no_esc(ev) ==
    IF ev.kind # "Key" THEN "none"
    ELSE CASE ev.code = "Up" -> "Up"
           [] ev.code = "Down" -> "Down"
           [] ev.code = "Enter" -> "Enter"
           [] ev.code = "Char(q)" /\ ev.modifiers = "NONE" -> "q"
           [] OTHER -> "ignored"

\* the arm of lines 135-161 that an event takes: "none" when the if let does
\* not match
MatchArm(ev) ==
    IF ev.kind # "Key" THEN "none"
    ELSE CASE ev.code = "Up" -> "Up"
           [] ev.code = "Down" -> "Down"
           [] ev.code = "Enter" -> "Enter"
           [] ev.code = "Char(q)" /\ ev.modifiers = "NONE" -> "q"
           [] ev.code = "Esc" -> "Esc"
           [] OTHER -> "ignored"

\* one pass of the loop of lines 133-167 on the event ev
Handle(ev) ==
    CASE MatchArm(ev) = "Up" -> UpArm
      [] MatchArm(ev) = "Down" -> DownArm
      [] MatchArm(ev) = "Enter" -> EnterArm
      [] MatchArm(ev) = "q" -> QArm
      [] MatchArm(ev) = "Esc" -> EscArm
      [] MatchArm(ev) = "ignored" -> IgnoredArm
      [] MatchArm(ev) = "none" -> NoMatch

KeyUp == \E ev \in Events : MatchArm(ev) = "Up" /\ Handle(ev)

KeyDown == \E ev \in Events : MatchArm(ev) = "Down" /\ Handle(ev)

KeyEnter == \E ev \in Events : MatchArm(ev) = "Enter" /\ Handle(ev)

KeyQ == \E ev \in Events : MatchArm(ev) = "q" /\ Handle(ev)

KeyEsc == \E ev \in Events : MatchArm(ev) = "Esc" /\ Handle(ev)

KeyIgnored == \E ev \in Events : MatchArm(ev) = "ignored" /\ Handle(ev)

NonKeyEvent == \E ev \in Events : MatchArm(ev) = "none" /\ Handle(ev)

SelectStep ==
    \/ KeyUp
    \/ KeyDown
    \/ KeyEnter
    \/ KeyQ
    \/ KeyEsc
    \/ KeyIgnored
    \/ NonKeyEvent

\* ------------------------------------- select_option called on any list
RECURSIVE SeqsUpTo(_, _)
SeqsUpTo(S, n) ==
    IF n = 0 THEN { << >> }
    ELSE LET shorter == SeqsUpTo(S, n - 1) IN
         shorter \cup { Append(s, x) : s \in { q \in shorter : Len(q) = n - 1 }, x \in S }

OptionLists == SeqsUpTo(OptionNames, MaxOptions)

InitHarness ==
    /\ term \in InitTerm
    /\ mainpc = "harness"
    /\ primary = NoPrimary
    /\ connected_outputs = << >>
    /\ selected = ""
    /\ issued = 0
    /\ last_command = NoCommand
    /\ initial_count = 0
    /\ iterations = 0
    /\ any_failed = FALSE
    /\ InitSelect

Call ==
    /\ mainpc = "harness"
    /\ selpc = "idle"
    /\ \E opts \in OptionLists : \E f \in 0 .. MaxOps(opts) :
          EnterSelect(HarnessTitle, opts, f, "harness")
    /\ UNCHANGED <<primary, connected_outputs, selected, issued, last_command,
                   initial_count, iterations, any_failed>>

NextSelect ==
    \/ Call
    \/ SelectStep

SpecSelect == InitHarness /\ [][NextSelect]_vars

\* ------------------------------------------------------------------ main
\* connected_outputs.retain(|x| x != &name)
Retain(outputs, name) == SelectSeq(outputs, LAMBDA x : x # name)

\* let pos_arg = match pos.as_str() { .. }
PosArg(pos) ==
    CASE pos = "left" -> "left-of"
      [] pos = "right" -> "right-of"
      [] pos = "above" -> "above"
      [] pos = "below" -> "below"

\* println! in line-buffered mode: the text goes to the cursor's row and the
\* cursor to column 0 of the next row; below row MaxAnchorRow the terminal is
\* taken to scroll, which keeps the rows of the next menu on the screen
Println(t) ==
    [t EXCEPT !.screen[t.cursor[2]] = Overwrite(@, t.cursor[1], <<"out">>),
              !.cursor = <<0, Min(t.cursor[2] + 1, MaxAnchorRow)>>]

\* the names parsed from xrandr --query (lines 22-37): distinct outputs, the
\* primary one of them when there is one
OutputLists == { s \in SeqsUpTo(Displays, MaxOutputs) :
                    \A i, j \in 1 .. Len(s) : i # j => s[i] # s[j] }

Init ==
    /\ term \in { t \in InitTerm : t.screen = [r \in Rows |-> PriorLine] /\ t.cursor = <<0, 0>> }
    /\ mainpc = "start"
    /\ connected_outputs \in OutputLists
    /\ primary \in {NoPrimary} \cup { connected_outputs[i] : i \in 1 .. Len(connected_outputs) }
    /\ selected = ""
    /\ issued = 0
    /\ last_command = NoCommand
    /\ initial_count = 0
    /\ iterations = 0
    /\ any_failed = FALSE
    /\ InitSelect

\* lines 39-53
MainStart ==
    /\ mainpc = "start"
    /\ term' = Println(term)
    /\ IF primary = NoPrimary
       THEN /\ mainpc' = "exit"
            /\ UNCHANGED connected_outputs
       ELSE /\ connected_outputs' = Retain(connected_outputs, primary)
            /\ mainpc' = IF connected_outputs' = << >> THEN "exit" ELSE "loop"
    /\ initial_count' = IF primary = NoPrimary THEN 0 ELSE Len(connected_outputs')
    /\ UNCHANGED <<primary, selected, issued, last_command, iterations, any_failed,
                   selvars, histvars>>

\* a None that is taken for a selection
IsNone_never(r) == FALSE

\* the else of let Some(..) = .. else { .. } is taken
IsNone(r) == ~r.some

\* lines 55-62: the top of the loop and the call that selects the display
LoopTop ==
    /\ mainpc = "loop"
    /\ IF connected_outputs = << >>
       THEN /\ mainpc' = "exit"
            /\ term' = Println(term)
            /\ UNCHANGED <<selvars, histvars, iterations>>
       ELSE /\ iterations' = iterations + 1
            /\ \E f \in 0 .. MaxOps(connected_outputs) :
                   EnterSelect(DisplayTitle, connected_outputs, f, "display")
    /\ UNCHANGED <<primary, connected_outputs, selected, issued, last_command,
                   initial_count, any_failed>>

\* lines 64-71: the display selection returned; the call that selects the position
AfterDisplay ==
    /\ mainpc = "display"
    /\ selpc = "returned"
    /\ IF IsNone(ret)
       THEN /\ mainpc' = "exit"
            /\ term' = Println(term)
            /\ selpc' = "idle"
            /\ UNCHANGED <<selected, title, options, selected_index, start_pos, ret, histvars>>
       ELSE \E f \in 0 .. MaxOps(position_options) :
            /\ selected' = ret.value
            /\ EnterSelect(PositionTitle, position_options, f, "position")
    /\ UNCHANGED <<primary, connected_outputs, issued, last_command,
                   initial_count, iterations, any_failed>>

\* the display is removed whatever the status
AfterCommand_always_removes(outputs, name, ok) == Retain(outputs, name)

\* the display stays in the list whatever the status
AfterCommand_never_removes(outputs, name, ok) == outputs

\* lines 102-108: the list after the command for the display name; ok is
\* status.success()
AfterCommand(outputs, name, ok) ==
    IF ok THEN Retain(outputs, name) ELSE outputs

\* lines 73-108: the position selection returned; the xrandr command
AfterPos ==
    /\ mainpc = "position"
    /\ selpc = "returned"
    /\ selpc' = "idle"
    /\ selected' = ""
    /\ IF IsNone(ret)
       THEN /\ mainpc' = "exit"
            /\ term' = Println(term)
            /\ UNCHANGED <<connected_outputs, issued, last_command, any_failed>>
       ELSE /\ issued < MaxCommands
            /\ \E status \in {"success", "failure", "not executed"} :
                 IF status = "not executed"
                 THEN /\ mainpc' = "panicked"
                      /\ term' = Println(term)
                      /\ UNCHANGED <<connected_outputs, issued, last_command, any_failed>>
                 ELSE /\ mainpc' = "loop"
                      /\ term' = Println(Println(term))
                      /\ issued' = issued + 1
                      /\ last_command' = [display |-> selected,
                                          pos_arg |-> PosArg(ret.value),
                                          ok |-> (status = "success")]
                      /\ any_failed' = (any_failed \/ status = "failure")
                      /\ connected_outputs' =
                            AfterCommand(connected_outputs, selected, status = "success")
    /\ UNCHANGED <<primary, title, options, selected_index, start_pos, ret, histvars,
                   initial_count, iterations>>

Next ==
    \/ MainStart
    \/ LoopTop
    \/ AfterDisplay
    \/ AfterPos
    \/ SelectStep

Spec == Init /\ [][Next]_vars

\* ================================================================ claims
\* C1: when select_option returns from a non-empty list, by Accept or by
\* Cancel, the input mode and the cursor visibility are what they were when
\* it was called.
C1_ModeRestored ==
    (selpc = "returned" /\ options # << >>) =>
        /\ left_by \in {"Enter", "q", "Esc"}
        /\ term.raw = before.raw
        /\ term.visible = before.visible

C1_Witness ==
    /\ selpc = "returned"
    /\ left_by = "Enter"
    /\ Len(options) >= 2
    /\ downs >= 1
    /\ ~term.raw
    /\ term.visible

\* C2: every call that acquired raw mode has entered cleanup exactly once
\* when control leaves select_option, whether by return or by a failure of a
\* terminal operation.
C2_ReleasedOnEveryExit ==
    (selpc \in {"returned", "panicked"} /\ acquired) => releases = 1

\* C3: while the loop runs on N options the highlighted index is within
\* 0 .. N-1, whatever events were received.
C3_IndexInRange ==
    (selpc \in {"waiting", "returned"} /\ options # << >>) =>
        selected_index \in 0 .. (Len(options) - 1)

C3_Witness ==
    /\ selpc = "waiting"
    /\ Len(options) >= 3
    /\ downs = Len(options)
    /\ ups
    /\ selected_index = 0

\* C4: navigation is clamped: Down at N-1 leaves the index at N-1, Up at 0
\* leaves it at 0, anywhere else Down adds exactly 1 and Up subtracts
\* exactly 1.
C4_ClampedNotCyclic ==
    [][(selpc = "waiting" /\ selpc' = "waiting") =>
        /\ KeyDown => selected_index' =
                        (IF selected_index = Len(options) - 1
                         THEN Len(options) - 1 ELSE selected_index + 1)
        /\ KeyUp => selected_index' =
                        (IF selected_index = 0 THEN 0 ELSE selected_index - 1)]_vars

C4_Witness ==
    /\ selpc = "waiting"
    /\ Len(options) >= 2
    /\ downs = Len(options)
    /\ ~ups
    /\ selected_index = Len(options) - 1

\* C5: from any menu state, cancelling with the bare 'q' key and cancelling
\* with Escape give the same outcome (None) and the same terminal: the same
\* cleared region, cursor position, cursor visibility and input mode.
C5_CancelEquivalence ==
    selpc = "waiting" =>
        LET q == RunOps(term, CancelQOps(start_pos, num_lines),
                        Len(CancelQOps(start_pos, num_lines)))
            e == RunOps(term, CancelEscOps(start_pos, num_lines),
                        Len(CancelEscOps(start_pos, num_lines)))
        IN  /\ CancelQResult = None
            /\ CancelEscResult = CancelQResult
            /\ e = q
            /\ \A i \in 0 .. Len(options) : q.screen[start_pos[2] + i] = BlankLine
            /\ q.cursor = <<0, start_pos[2]>>
            /\ q.visible
            /\ ~q.raw

C5_Witness ==
    /\ selpc = "returned"
    /\ left_by = "Esc"
    /\ ~ret.some
    /\ downs >= 1
    /\ term.screen[start_pos[2] + 1] = BlankLine

\* C6: whenever the loop is blocked in read, the title is on the first line
\* of the region and each of the N following lines shows its option, the
\* line of the highlighted index with the marker "> " and every other line
\* with two blanks, and nothing else is left on these lines.
C6_RenderConsistent ==
    selpc = "waiting" =>
        /\ term.screen[start_pos[2]] = <<title>>
        /\ \A i \in 1 .. Len(options) :
              term.screen[start_pos[2] + i] =
                 <<(IF i = selected_index + 1 THEN "> " ELSE "  "), options[i]>>
        /\ Cardinality({ i \in 1 .. Len(options) :
                           term.screen[start_pos[2] + i][1] = "> " }) = 1

C6_Witness ==
    /\ selpc = "waiting"
    /\ Len(options) >= 3
    /\ downs >= 2
    /\ ups
    /\ selected_index = 1
    /\ term.screen[start_pos[2] + 2] = <<"> ", options[2]>>
    /\ term.screen[start_pos[2] + 3] = <<"  ", options[3]>>

\* C7: select_option called with an empty list returns None and touches
\* nothing: no raw mode, no cursor change, no position query, no read, no
\* write to the terminal.
C7_EmptyListShortCircuit ==
    [][(selpc = "idle" /\ selpc' \in {"waiting", "returned"} /\ options' = << >>) =>
        /\ selpc' = "returned"
        /\ ret' = None
        /\ term' = term
        /\ ~touched'
        /\ ~acquired']_vars

C7_Witness ==
    /\ mainpc = "harness"
    /\ selpc = "returned"
    /\ options = << >>
    /\ ret = None
    /\ ~touched

\* C8: Enter ends the call with Some(options[i]) for the index i highlighted
\* at that moment; with k Down events and no Up since the start that is
\* options[min(k, N-1)], "above" for Down, Down, Enter on the four
\* positions; the returned string is an element of the list.
C8_AcceptReturnsHighlighted ==
    (selpc = "returned" /\ left_by = "Enter") =>
        /\ ret.some
        /\ ret.value = options[selected_index + 1]
        /\ \E i \in 1 .. Len(options) : ret.value = options[i]
        /\ ~ups => ret.value = options[Min(downs, Len(options) - 1) + 1]
        /\ (downs = 0 /\ ~ups) => ret.value = options[1]
        /\ (options = <<"left", "right", "above", "below">> /\ downs = 2 /\ ~ups)
              => ret.value = "above"

C8_Witness ==
    /\ selpc = "returned"
    /\ left_by = "Enter"
    /\ options = <<"left", "right", "above", "below">>
    /\ downs = 2
    /\ ~ups
    /\ ret = Some("above")

C10_NoCommandAfterCancel ==
    [][/\ (issued' # issued \/ last_command' # last_command) =>
            /\ mainpc = "position"
            /\ selpc = "returned"
            /\ ret.some
            /\ selected # ""
            /\ \E i \in 1 .. Len(connected_outputs) : connected_outputs[i] = selected
            /\ issued' = issued + 1
            /\ last_command'.display = selected
       /\ (mainpc \in {"display", "position"} /\ selpc = "returned" /\ ~ret.some) =>
            /\ mainpc' = "exit"
            /\ issued' = issued
            /\ last_command' = last_command]_vars

C10_Witness ==
    /\ mainpc = "exit"
    /\ left_by = "q"
    /\ ups
    /\ downs = 0
    /\ options = <<"HDMI-1", "DP-1">>
    /\ issued = 0

C12_OtherEventsIgnored ==
    [][\A ev \in Events :
        (/\ selpc = "waiting"
         /\ selpc' # "panicked"
         /\ ev.kind # "Key" \/ ev.code \notin {"Up", "Down", "Enter", "Esc"}
         /\ ~(ev.kind = "Key" /\ ev.code = "Char(q)" /\ ev.modifiers = "NONE")
         /\ Handle(ev)) =>
            /\ selpc' = "waiting"
            /\ mainpc' = mainpc
            /\ selected_index' = selected_index
            /\ options' = options
            /\ title' = title
            /\ start_pos' = start_pos
            /\ ret' = ret
            /\ term' = term]_vars

C12_Witness ==
    /\ selpc = "waiting"
    /\ ignored
    /\ downs >= 1
    /\ selected_index = 1
    /\ term.screen[start_pos[2] + 2][1] = "> "

\* C13: on Accept and on Cancel the whole region (1+N lines from the anchor
\* row) is cleared first, then the guard is released, then the call returns:
\* the guard is never released while a line of the menu is still shown, no
\* line is drawn again after the key, and at the return the region is blank.
C13_ClearThenRelease ==
    /\ selpc = "waiting" =>
         \A ops \in { AcceptOps(start_pos, num_lines),
                      CancelQOps(start_pos, num_lines),
                      CancelEscOps(start_pos, num_lines) } :
            \A k \in 1 .. Len(ops) :
                LET t == RunOps(term, ops, k)
                    u == RunOps(term, ops, k - 1)
                IN  /\ (t.visible \/ ~t.raw) =>
                          \A i \in 0 .. Len(options) :
                              t.screen[start_pos[2] + i] = BlankLine
                    /\ \A i \in 0 .. Len(options) :
                          t.screen[start_pos[2] + i] \in
                              {u.screen[start_pos[2] + i], BlankLine}
    /\ (selpc = "returned" /\ options # << >>) =>
         /\ \A i \in 0 .. Len(options) : term.screen[start_pos[2] + i] = BlankLine
         /\ releases = 1
         /\ term.visible
         /\ ~term.raw

C13_Witness ==
    /\ selpc = "returned"
    /\ left_by = "q"
    /\ Len(options) = 3
    /\ start_pos[2] = 1
    /\ \A i \in 0 .. 3 : term.screen[1 + i] = BlankLine
    /\ term.screen[0] = PriorLine
    /\ releases = 1

\* C14: when raw mode was enabled and hiding the cursor or reading the
\* cursor position then fails, cleanup still runs: raw mode is off and the
\* cursor is shown when control leaves select_option.
C14_PartialAcquireReleased ==
    [][(/\ selpc # "waiting"
        /\ selpc' = "panicked"
        /\ acquired'
        /\ term'.screen = term.screen
        /\ term'.cursor = term.cursor) =>
            /\ ~term'.raw
            /\ term'.visible
            /\ releases' = 1]_vars

\* C15: a call on a non-empty list returns exactly when an Enter, a bare 'q'
\* or an Escape is received: that event ends the call in the same pass, with
\* no further read; any other event leaves the call waiting, and nothing but
\* an event makes a waiting call return.
C15_ReturnsOnlyOnAcceptOrCancel ==
    [][/\ \A ev \in Events :
            (selpc = "waiting" /\ selpc' # "panicked" /\ Handle(ev)) =>
                (selpc' = "returned" <=>
                    /\ ev.kind = "Key"
                    /\ \/ ev.code \in {"Enter", "Esc"}
                       \/ ev.code = "Char(q)" /\ ev.modifiers = "NONE")
       /\ (selpc = "waiting" /\ selpc' = "returned") =>
            /\ left_by' \in {"Enter", "q", "Esc"}
            /\ \E ev \in Events : Handle(ev)
       /\ (selpc = "waiting" /\ selpc' = "waiting") =>
            /\ mainpc' = mainpc
            /\ left_by' = "none"]_vars

C15_Witness ==
    /\ selpc = "returned"
    /\ left_by = "Esc"
    /\ ignored
    /\ ups
    /\ downs = Len(options)
    /\ Len(options) >= 2

\* C16: in the loop the list of displays changes only by losing the display
\* selected in this iteration, and only when its command reported success;
\* a display once removed is never in the list or offered again; after a
\* failed command the list is unchanged and the next iteration offers the
\* same displays, the one just tried included.
C16_ListShrinksOnSuccessOnly ==
    [][mainpc # "start" =>
        /\ connected_outputs' # connected_outputs =>
              /\ mainpc = "position"
              /\ ret.some
              /\ issued' = issued + 1
              /\ last_command' = [display |-> selected,
                                  pos_arg |-> PosArg(ret.value), ok |-> TRUE]
              /\ Len(connected_outputs') = Len(connected_outputs) - 1
              /\ \A i \in 1 .. Len(connected_outputs') : connected_outputs'[i] # selected
        /\ \A i \in 1 .. Len(connected_outputs') :
              \E j \in 1 .. Len(connected_outputs) :
                  connected_outputs'[i] = connected_outputs[j]
        /\ (issued' = issued + 1 /\ last_command'.ok) =>
              /\ connected_outputs' # connected_outputs
              /\ mainpc' = "loop"
        /\ (issued' = issued + 1 /\ ~last_command'.ok) =>
              /\ connected_outputs' = connected_outputs
              /\ \E i \in 1 .. Len(connected_outputs') :
                    connected_outputs'[i] = last_command'.display
              /\ mainpc' = "loop"
        /\ (mainpc' = "display" /\ selpc' = "waiting") =>
              options' = connected_outputs']_vars

C16_Witness ==
    /\ mainpc = "display"
    /\ selpc = "waiting"
    /\ issued = 2
    /\ any_failed
    /\ ~last_command.ok
    /\ Len(options) = 1
    /\ options[1] = last_command.display
    /\ initial_count = 2

\* C17: as long as every command succeeded, the loop over K displays has
\* made at most K passes and each command took one display off the list, so
\* it ends after at most K iterations, with the list empty or earlier on a
\* cancel; a command that fails brings the loop back to its top with the
\* list unchanged and not empty, so the loop can go on for as long as the
\* command fails and the user does not cancel.
C17_AtMostKIterations ==
    [][/\ (mainpc' \in {"loop", "display", "position", "exit"}
           /\ primary # NoPrimary /\ ~any_failed') =>
            /\ iterations' <= initial_count'
            /\ issued' + Len(connected_outputs') = initial_count'
            /\ (iterations' = initial_count' /\ mainpc' = "loop") =>
                    connected_outputs' = << >>
       /\ (mainpc = "loop" /\ connected_outputs = << >>) => mainpc' = "exit"
       /\ (issued' = issued + 1 /\ ~last_command'.ok) =>
            /\ mainpc' = "loop"
            /\ connected_outputs' = connected_outputs
            /\ connected_outputs' # << >>
            /\ any_failed']_vars

C17_Witness ==
    /\ mainpc = "exit"
    /\ ~any_failed
    /\ initial_count = 2
    /\ iterations = 2
    /\ issued = 2
    /\ connected_outputs = << >>
    /\ last_command.ok

====
